---- MODULE Spec2Model ----
(***************************************************************************)
(* Model of the yarr feed worker (src/src/worker): the refresh scheduler   *)
(* and its fan-out/fan-in pipeline (worker.go), the refresh timer          *)
(* (Worker.SetRefreshRate), the HTTP retry loop (client.go), feed          *)
(* discovery, favicon resolution and the HTTP cache state (crawler.go).    *)
(*                                                                         *)
(* The specifications of the module:                                       *)
(*   Spec          RefreshFeeds / StopRefresh / FeedsPending and the cycles*)
(*   TimerSpec     SetRefreshRate, its listener goroutine and the cycles   *)
(*                 the listener starts (weak fairness of the goroutines)   *)
(*   ClientSpec    one call of Client.getConditional at a time             *)
(*   DiscoverSpec  one call of DiscoverFeed at a time, with its nested     *)
(*                 calls                                                   *)
(*   FetchSpec     worker iterations over the HTTP cache state in storage  *)
(*   IconSpec      one call of findFaviconWithContext at a time, under a   *)
(*                 token that can expire at any moment                     *)
(*   PipelineSpec  the refresh cycles with 1 to MaxPool workers, the       *)
(*                 queueing loop taken send by send (weak fairness)        *)
(***************************************************************************)
EXTENDS Integers, Sequences, FiniteSets, TLC

(* ---- bounds ---------------------------------------------------------- *)

\* Work started over one run: refreshers spawned plus feeds handed to them.
\* 4 allows one cycle over 1, 2 or 3 feeds and two cycles over one feed each.
MaxWork == 4

\* The same measure for the runs of TimerSpec.
MaxTimerWork == 2

\* Calls of SetRefreshRate with a non-zero interval over one run of TimerSpec.
MaxTimers == 2

\* Well-formed urls in the runs of DiscoverSpec.
MaxUrls == 3

\* Calls of DiscoverFeed on the stack at once.
MaxDepth == 4

\* Feeds in storage in the runs of FetchSpec.
MaxFeeds == 2

\* Icons the site page refers to in the runs of IconSpec.
MaxIcons == 1

\* The measure of MaxWork for the runs of PipelineSpec.
MaxPipeWork == 3

\* The largest NUM_WORKERS in the runs of PipelineSpec.
MaxPool == 2

(* ---- program constants ------------------------------------------------ *)

\* worker.go:14  var NUM_WORKERS = 4
NUM_WORKERS == 4

VARIABLES
    pending,      \* *w.pending (int32; far from its limits here)
    cycles,       \* one record per refresher goroutine spawned so far
    feedErrors,   \* the storage's feed error table: ids of feeds with an error
    fpPc,         \* FeedsPending between its load and its store: <<>> or <<loaded value>>
    numWorkers,   \* the value of NUM_WORKERS the refreshers read
    last,         \* history: the call or step that produced this state
    timer,        \* SetRefreshRate's fields, tickers and listener goroutines
    call,         \* the call of Client.getConditional in progress
    disc,         \* the call of DiscoverFeed in progress and its nested calls
    icon,         \* the call of findFaviconWithContext in progress
    fetch         \* the HTTP cache state in storage and the worker iterations over it

wvars == <<pending, cycles, feedErrors, fpPc, numWorkers, last>>
ovars == <<disc, icon, fetch>>
vars == <<wvars, timer, call, ovars>>

(* ---- helpers ---------------------------------------------------------- *)

RECURSIVE Work(_)
Work(cs) == IF cs = <<>> THEN 0 ELSE 1 + Len(Head(cs).feeds) + Work(Tail(cs))

\* How many feeds ListFeeds may return with `bound' as the limit on the work
\* started: always none, and as many as the limit leaves room for.
FeedCounts(bound) ==
    0..(IF bound - Work(cycles) - 1 > 0 THEN bound - Work(cycles) - 1 ELSE 0)

\* feeds 1..n, as storage.ListFeeds returns them
ListFeeds(n) == [i \in 1..n |-> i]

Step(op) == [op |-> op, arg |-> 0, ret |-> 0]

\* Results in the hands of workers, by kind; workers are interchangeable.
NoneHeld == [k \in {"empty", "some"} |-> 0]
AddAll(held, sent) ==
    [k \in {"empty", "some"} |->
        held[k] + Cardinality({i \in 1..Len(sent) : sent[i] = k})]

(* ---- crawler.go: listItems -------------------------------------------- *)

\* What the conditional GET of one feed can come back as.
Responses == {"neterr", "status", "notmod", "badbody", "parsed0", "parsed1"}

\* Faulty variant: every status but 2xx taken as an error, 304 included.
listItems_strict(resp) ==
    CASE resp = "neterr"  -> [items |-> "nil",   err |-> TRUE]
      [] resp = "status"  -> [items |-> "nil",   err |-> TRUE]
      [] resp = "notmod"  -> [items |-> "nil",   err |-> TRUE]
      [] resp = "badbody" -> [items |-> "nil",   err |-> TRUE]
      [] resp = "parsed0" -> [items |-> "empty", err |-> FALSE]
      [] resp = "parsed1" -> [items |-> "some",  err |-> FALSE]

\* listItemsWithContext under context.Background(): (items, err).
\* items is "nil", "empty" (a non-nil slice of length 0) or "some".
listItems(resp) ==
    CASE resp = "neterr"  -> [items |-> "nil",   err |-> TRUE]
      [] resp = "status"  -> [items |-> "nil",   err |-> TRUE]
      [] resp = "notmod"  -> [items |-> "nil",   err |-> FALSE]
      [] resp = "badbody" -> [items |-> "nil",   err |-> TRUE]
      [] resp = "parsed0" -> [items |-> "empty", err |-> FALSE]
      [] resp = "parsed1" -> [items |-> "some",  err |-> FALSE]

(* ---- worker.go: Worker.worker ----------------------------------------- *)

\* Faulty variant: a worker that sends nothing when listItems returns nil.
WorkerEmits_drop(r) == IF r.items # "nil" THEN <<r.items>> ELSE <<>>

\* What one worker iteration sends to dstqueue for the result r of listItems.
WorkerEmits(r) == IF r.items # "nil" THEN <<r.items>> ELSE <<"empty">>

\* A worker at `range srcqueue' with nothing in hand.
IdleWorkers(c) ==
    numWorkers - Cardinality(cycles[c].fetching)
               - (cycles[c].holding["empty"] + cycles[c].holding["some"])

\* for feed := range srcqueue: a worker takes the next feed.
WorkerPull(c) ==
    /\ cycles[c].pc \in {"queue", "run"}
    /\ cycles[c].srcqueue # <<>>
    /\ IdleWorkers(c) > 0
    /\ LET f == Head(cycles[c].srcqueue) IN
       cycles' = [cycles EXCEPT ![c] = [@ EXCEPT
                    !.srcqueue = Tail(@),
                    !.fetching = @ \cup {f},
                    !.fetches = [@ EXCEPT ![f] = @ + 1]]]
    /\ last' = Step("step")
    /\ UNCHANGED <<pending, feedErrors, fpPc, numWorkers>>

\* listItems returns for a GET answered by one of `responses'; SetFeedError
\* on error; the result is ready to be sent.
WorkerFetchOf(c, responses) ==
    /\ cycles[c].pc \in {"queue", "run"}
    /\ \E f \in cycles[c].fetching, resp \in responses :
        LET r == listItems(resp) IN
        /\ feedErrors' = IF r.err THEN feedErrors \cup {f} ELSE feedErrors
        /\ cycles' = [cycles EXCEPT ![c] = [@ EXCEPT
                        !.fetching = @ \ {f},
                        !.holding = AddAll(@, WorkerEmits(r)),
                        !.result = [@ EXCEPT ![f] = <<r>>]]]
    /\ last' = Step("step")
    /\ UNCHANGED <<pending, fpPc, numWorkers>>

WorkerFetch(c) == WorkerFetchOf(c, Responses)

\* dstqueue <- items: blocks while the buffer (cap NUM_WORKERS) is full.
WorkerSend(c) ==
    /\ cycles[c].pc \in {"queue", "run"}
    /\ ~cycles[c].dstClosed
    /\ Len(cycles[c].dstqueue) < numWorkers
    /\ \E items \in {"empty", "some"} :
        /\ cycles[c].holding[items] > 0
        /\ cycles' = [cycles EXCEPT ![c] = [@ EXCEPT
                        !.holding = [@ EXCEPT ![items] = @ - 1],
                        !.dstqueue = Append(@, items),
                        !.emitted = @ + 1]]
    /\ last' = Step("step")
    /\ UNCHANGED <<pending, feedErrors, fpPc, numWorkers>>

(* ---- worker.go: Worker.refresher -------------------------------------- *)

\* The refresher goroutine RefreshFeeds spawns for `feeds'.
NewCycle(feeds) ==
    [pc |-> "start", feeds |-> feeds, srcqueue |-> <<>>, fetching |-> {},
     holding |-> NoneHeld, dstqueue |-> <<>>, dstClosed |-> FALSE,
     aggCur |-> <<>>,
     \* history, per cycle
     fetches |-> [f \in 1..Len(feeds) |-> 0],
     result |-> [f \in 1..Len(feeds) |-> <<>>],
     emitted |-> 0, received |-> 0, created |-> 0, synced |-> 0,
     errsAtEnd |-> {}]

\* ResetFeedErrors, the queues, the worker pool, every feed queued, close(srcqueue).
\* One step: srcqueue holds the whole batch, so no send of the loop at lines
\* 152-154 waits for a worker (RefresherBegin and RefresherQueue below take
\* the loop send by send).
RefresherStart(c) ==
    /\ cycles[c].pc = "start"
    /\ feedErrors' = {}
    /\ cycles' = [cycles EXCEPT ![c] = [@ EXCEPT
                    !.pc = "run", !.srcqueue = cycles[c].feeds]]
    /\ last' = Step("step")
    /\ UNCHANGED <<pending, fpPc, numWorkers>>

\* Faulty variant: dstqueue closed without waiting for the workers.
AllWorkersDone_nowait(c) == cycles[c].srcqueue = <<>>

\* wg.Wait() returns: srcqueue is closed and drained and every worker has
\* left its range loop.
AllWorkersDone(c) ==
    /\ cycles[c].srcqueue = <<>>
    /\ IdleWorkers(c) = numWorkers

\* wg.Wait() returns, close(dstqueue).
WorkersDone(c) ==
    /\ cycles[c].pc = "run"
    /\ ~cycles[c].dstClosed
    /\ AllWorkersDone(c)
    /\ cycles' = [cycles EXCEPT ![c] = [@ EXCEPT !.dstClosed = TRUE]]
    /\ last' = Step("step")
    /\ UNCHANGED <<pending, feedErrors, fpPc, numWorkers>>

\* make(chan storage.Feed, len(feeds)): the capacity of srcqueue.
SrcCap(feeds) == Len(feeds)

\* The feeds of a cycle sent to srcqueue so far: those waiting in it and
\* those a worker has taken.
Queued(cy) ==
    Len(cy.srcqueue) + Cardinality({f \in DOMAIN cy.fetches : cy.fetches[f] > 0})

\* ResetFeedErrors, the two queues, the worker pool: up to the queueing loop.
RefresherBegin(c) ==
    /\ cycles[c].pc = "start"
    /\ feedErrors' = {}
    /\ cycles' = [cycles EXCEPT ![c] = [@ EXCEPT !.pc = "queue"]]
    /\ last' = Step("step")
    /\ UNCHANGED <<pending, fpPc, numWorkers>>

\* srcqueue <- feed for the next feed, which waits while the buffer is full;
\* after the last feed, close(srcqueue) and the goroutine around wg.Wait().
RefresherQueue(c) ==
    /\ cycles[c].pc = "queue"
    /\ LET cy == cycles[c] IN
       IF Queued(cy) = Len(cy.feeds)
       THEN cycles' = [cycles EXCEPT ![c] = [@ EXCEPT !.pc = "run"]]
       ELSE /\ Len(cy.srcqueue) < SrcCap(cy.feeds)
            /\ cycles' = [cycles EXCEPT ![c] = [@ EXCEPT
                            !.srcqueue = Append(@, cy.feeds[Queued(cy) + 1])]]
    /\ last' = Step("step")
    /\ UNCHANGED <<pending, feedErrors, fpPc, numWorkers>>

\* Faulty variant: CreateItems on every result, empty or not.
ShouldCreate_always(items) == TRUE

\* if len(items) > 0
ShouldCreate(items) == items = "some"

\* for items := range dstqueue: CreateItems when non-empty, then load pending.
AggRecv(c) ==
    /\ cycles[c].pc = "run"
    /\ cycles[c].aggCur = <<>>
    /\ cycles[c].dstqueue # <<>>
    /\ LET items == Head(cycles[c].dstqueue) IN
       cycles' = [cycles EXCEPT ![c] = [@ EXCEPT
                    !.dstqueue = Tail(@),
                    !.received = @ + 1,
                    !.created = IF ShouldCreate(items) THEN @ + 1 ELSE @,
                    !.aggCur = <<pending>>]]
    /\ last' = Step("step")
    /\ UNCHANGED <<pending, feedErrors, fpPc, numWorkers>>

\* if current > 0 { atomic.AddInt32(w.pending, -1) }
AggDec(c) ==
    /\ cycles[c].pc = "run"
    /\ cycles[c].aggCur # <<>>
    /\ pending' = IF cycles[c].aggCur[1] > 0 THEN pending - 1 ELSE pending
    /\ cycles' = [cycles EXCEPT ![c] = [@ EXCEPT !.aggCur = <<>>]]
    /\ last' = Step("step")
    /\ UNCHANGED <<feedErrors, fpPc, numWorkers>>

\* dstqueue closed and drained: SyncSearch, pending := 0, GetFeedErrors for the log.
RefresherFinish(c) ==
    /\ cycles[c].pc = "run"
    /\ cycles[c].dstClosed
    /\ cycles[c].dstqueue = <<>>
    /\ cycles[c].aggCur = <<>>
    /\ pending' = 0
    /\ cycles' = [cycles EXCEPT ![c] = [@ EXCEPT
                    !.pc = "done", !.synced = @ + 1, !.errsAtEnd = feedErrors]]
    /\ last' = Step("step")
    /\ UNCHANGED <<feedErrors, fpPc, numWorkers>>

(* ---- worker.go: the Worker's API -------------------------------------- *)

\* NewWorker
WorkerInit ==
    /\ pending = 0
    /\ cycles = <<>>
    /\ feedErrors = {}
    /\ fpPc = <<>>
    /\ numWorkers = NUM_WORKERS
    /\ last = Step("NewWorker")

\* Faulty variant: no check for a cycle in progress.
RefreshBusy_never(p) == FALSE

\* if *w.pending > 0
RefreshBusy(p) == p > 0

\* RefreshFeeds under reflock; n is the number of feeds ListFeeds returns,
\* caller is 0 for a direct call and the listener's number for a timer-fired one.
\* The plain read of *w.pending (one aligned 32-bit load after Lock) is taken
\* to return the current value, as the atomic load does.  No other step
\* raises a counter that is 0 or below, so the steps of other goroutines
\* between the check and the store change nothing the call depends on.
RefreshFeeds(n, caller) ==
    IF RefreshBusy(pending)
    THEN /\ last' = [op |-> "RefreshFeeds", arg |-> caller, ret |-> 0]
         /\ UNCHANGED <<pending, cycles, feedErrors, fpPc, numWorkers>>
    ELSE IF n = 0
    THEN /\ last' = [op |-> "RefreshFeeds", arg |-> caller, ret |-> 0]
         /\ UNCHANGED <<pending, cycles, feedErrors, fpPc, numWorkers>>
    ELSE /\ pending' = n
         /\ cycles' = Append(cycles, NewCycle(ListFeeds(n)))
         /\ last' = [op |-> "RefreshFeeds", arg |-> caller, ret |-> n]
         /\ UNCHANGED <<feedErrors, fpPc, numWorkers>>

InFlight == {c \in 1..Len(cycles) : cycles[c].pc # "done"}

\* Faulty variant: a StopRefresh that also empties the work queues of the
\* cycles in flight.
StopRefresh_cancel ==
    /\ IF pending > 0
       THEN /\ pending' = 0
            /\ cycles' = [c \in 1..Len(cycles) |->
                            IF cycles[c].pc # "done"
                            THEN [cycles[c] EXCEPT !.srcqueue = <<>>]
                            ELSE cycles[c]]
       ELSE UNCHANGED <<pending, cycles>>
    /\ last' = [op |-> "StopRefresh", arg |-> 0, ret |-> IF pending > 0 THEN 1 ELSE 0]
    /\ UNCHANGED <<feedErrors, fpPc, numWorkers>>

\* StopRefresh under reflock.  The history's ret is 1 when it zeroed pending.
\* A decrement or reset between its check and its store ends in the same 0.
StopRefresh ==
    /\ IF pending > 0
       THEN pending' = 0
       ELSE UNCHANGED pending
    /\ last' = [op |-> "StopRefresh", arg |-> 0, ret |-> IF pending > 0 THEN 1 ELSE 0]
    /\ UNCHANGED <<cycles, feedErrors, fpPc, numWorkers>>

\* Faulty variant: the loaded value returned as it is.
FeedsPendingReturn_raw(p) == p

\* what FeedsPending returns for the loaded value p
FeedsPendingReturn(p) == IF p < 0 THEN 0 ELSE p

\* FeedsPending: atomic.LoadInt32, and the return when the value is not negative.
FeedsPendingLoad ==
    /\ fpPc = <<>>
    /\ IF pending < 0
       THEN /\ fpPc' = <<pending>>
            /\ last' = Step("step")
       ELSE /\ fpPc' = <<>>
            /\ last' = [op |-> "FeedsPending", arg |-> pending,
                        ret |-> FeedsPendingReturn(pending)]
    /\ UNCHANGED <<pending, cycles, feedErrors, numWorkers>>

\* FeedsPending on a negative value: atomic.StoreInt32(w.pending, 0); return 0.
FeedsPendingClamp ==
    /\ fpPc # <<>>
    /\ pending' = 0
    /\ fpPc' = <<>>
    /\ last' = [op |-> "FeedsPending", arg |-> fpPc[1],
                ret |-> FeedsPendingReturn(fpPc[1])]
    /\ UNCHANGED <<cycles, feedErrors, numWorkers>>

CycleStep ==
    \E c \in 1..Len(cycles) :
        \/ RefresherStart(c)
        \/ WorkerPull(c)
        \/ WorkerFetch(c)
        \/ WorkerSend(c)
        \/ WorkersDone(c)
        \/ AggRecv(c)
        \/ AggDec(c)
        \/ RefresherFinish(c)

(* ---- worker.go: Worker.SetRefreshRate --------------------------------- *)

\* Intervals passed to SetRefreshRate: 0 switches the timer off.  Calls are
\* made one after another.
Minutes == {0, 5}

\* w.stopper, w.refresh: 0 is nil, k > 0 is the channel / ticker made by the
\* k-th installing call.  running: tickers not stopped.  tickC: tickers with a
\* tick waiting in their channel.  listeners[k]: the goroutine of the k-th
\* installing call.  set: where the caller of SetRefreshRate is.  rate: the
\* interval of the last call that returned.
TimerIdle ==
    timer = [stopper |-> 0, refresh |-> 0, running |-> {}, tickC |-> {},
             listeners |-> <<>>, set |-> [pc |-> "idle", minute |-> 0],
             rate |-> 0]

\* Lines 80-99: return when minute is 0, else the new channel, ticker, goroutine.
Install(t, minute) ==
    IF minute = 0
    THEN [t EXCEPT !.set = [pc |-> "idle", minute |-> 0], !.rate = 0]
    ELSE LET k == Len(t.listeners) + 1 IN
         [t EXCEPT !.stopper = k, !.refresh = k,
                   !.running = @ \cup {k},
                   !.listeners = Append(@, "select"),
                   !.set = [pc |-> "idle", minute |-> 0],
                   !.rate = minute]

\* Faulty variant: the new listener installed without stopping the old one.
SetRefreshRateBegin_nostop(minute) ==
    /\ timer.set.pc = "idle"
    /\ timer' = Install(timer, minute)
    /\ last' = Step("SetRefreshRate")

\* SetRefreshRate up to the send on w.stopper (or to its end with no stopper).
SetRefreshRateBegin(minute) ==
    /\ timer.set.pc = "idle"
    /\ IF timer.stopper # 0
       THEN timer' = [timer EXCEPT !.running = @ \ {timer.refresh},
                                   !.refresh = 0,
                                   !.set = [pc |-> "send", minute |-> minute]]
       ELSE timer' = Install(timer, minute)
    /\ last' = Step("SetRefreshRate")

\* w.stopper <- true meets the listener's case <-stop.
StopHandshake ==
    /\ timer.set.pc = "send"
    /\ timer.listeners[timer.stopper] = "select"
    /\ timer' = [timer EXCEPT !.listeners[timer.stopper] = "stopping",
                              !.set.pc = "sent"]
    /\ last' = Step("step")

\* w.stopper = nil and the rest of SetRefreshRate.
SetRefreshRateEnd ==
    /\ timer.set.pc = "sent"
    /\ timer' = Install([timer EXCEPT !.stopper = 0], timer.set.minute)
    /\ last' = Step("SetRefreshRate")

\* The runtime sends a tick on a running ticker's channel (capacity 1).
Tick(k) ==
    /\ k \in timer.running
    /\ k \notin timer.tickC
    /\ timer' = [timer EXCEPT !.tickC = @ \cup {k}]
    /\ last' = Step("step")

\* case <-fire
ListenerFire(k) ==
    /\ timer.listeners[k] = "select"
    /\ k \in timer.tickC
    /\ timer' = [timer EXCEPT !.tickC = @ \ {k}, !.listeners[k] = "firing"]
    /\ last' = Step("step")

\* w.RefreshFeeds() from the listener, back to the select.
ListenerRefresh(k, n) ==
    /\ timer.listeners[k] = "firing"
    /\ RefreshFeeds(n, k)
    /\ timer' = [timer EXCEPT !.listeners[k] = "select"]

\* The listener logs "stopping" and returns.
ListenerExit(k) ==
    /\ timer.listeners[k] = "stopping"
    /\ timer' = [timer EXCEPT !.listeners[k] = "exited"]
    /\ last' = Step("step")

(* ---- client.go: Client.getConditional --------------------------------- *)

\* client.go:35  maxRetries := 3
maxRetries == 3

\* client.go:36  retryDelay := 2 * time.Second, in seconds
retryDelay == 2

\* The substrings getConditional looks for in an error's text.
Patterns == {"dial tcp", "lookup", "server misbehaving", "no such host", "i/o timeout"}

\* Errors httpClient.Do returns.  net: the error is a net.Error whose
\* Timeout() or Temporary() is true.  has: the patterns its text contains.
Errors ==
    { [name |-> "deadline",   net |-> TRUE,  has |-> {}],
      [name |-> "dialTimeout", net |-> TRUE, has |-> {"dial tcp", "i/o timeout"}],
      [name |-> "noSuchHost", net |-> FALSE, has |-> {"dial tcp", "lookup", "no such host"}],
      [name |-> "misbehaving", net |-> FALSE,
            has |-> {"dial tcp", "lookup", "server misbehaving"}],
      [name |-> "refused",    net |-> FALSE, has |-> {"dial tcp"}],
      [name |-> "bareLookup", net |-> FALSE, has |-> {"lookup", "no such host"}],
      [name |-> "badScheme",  net |-> FALSE, has |-> {}] }

\* The error of http.NewRequest on a malformed url.
BadRequest == [name |-> "badRequest", net |-> FALSE, has |-> {}]

Contains(e, p) == p \in e.has

\* Faulty variant: every failure retried.
IsRetryable_any(e) == TRUE

\* Lines 45 and 55-59: the two tests that lead to a sleep and a retry.
IsRetryable(e) ==
    \/ e.net
    \/ /\ Contains(e, "dial tcp")
       /\ \/ Contains(e, "lookup")
          \/ Contains(e, "server misbehaving")
          \/ Contains(e, "no such host")
          \/ Contains(e, "i/o timeout")

\* Faulty variant: a constant delay.
NextDelay_same(d) == d

\* retryDelay *= 2
NextDelay(d) == d * 2

\* No call in progress.  attempts: what each httpClient.Do returned, <<>> for
\* a response.  sleeps: the time.Sleep calls made.  ret: <<>> for a response,
\* <<e>> for the error returned.
ClientIdle ==
    call = [pc |-> "idle", i |-> 0, delay |-> 0, attempts |-> <<>>,
            sleeps |-> <<>>, ret |-> <<>>]

\* getConditional up to the loop: http.NewRequest, the headers, the locals.
GetConditional(urlOk) ==
    /\ call.pc \in {"idle", "done"}
    /\ IF urlOk
       THEN call' = [pc |-> "loop", i |-> 0, delay |-> retryDelay,
                     attempts |-> <<>>, sleeps |-> <<>>, ret |-> <<>>]
       ELSE call' = [pc |-> "done", i |-> 0, delay |-> 0,
                     attempts |-> <<>>, sleeps |-> <<>>, ret |-> <<BadRequest>>]

\* One iteration of the loop; out is <<>> when Do returns a response, else <<e>>.
Attempt(out) ==
    /\ call.pc = "loop"
    /\ call.i < maxRetries
    /\ IF out = <<>>
       THEN call' = [call EXCEPT !.pc = "done", !.attempts = Append(@, out),
                                 !.ret = <<>>]
       ELSE IF IsRetryable(out[1])
       THEN call' = [call EXCEPT !.attempts = Append(@, out),
                                 !.sleeps = Append(@, call.delay),
                                 !.delay = NextDelay(@),
                                 !.i = @ + 1]
       ELSE call' = [call EXCEPT !.pc = "done", !.attempts = Append(@, out),
                                 !.ret = out]

\* The loop condition fails: return nil, lastErr.
Exhausted ==
    /\ call.pc = "loop"
    /\ call.i >= maxRetries
    /\ call' = [call EXCEPT !.pc = "done",
                            !.ret = call.attempts[Len(call.attempts)]]

(* ---- crawler.go: DiscoverFeed ----------------------------------------- *)

\* A string url.Parse rejects; the other urls are 1..MaxUrls.
BadUrl == 0

Urls == 1..MaxUrls

\* What client.get and the read of the body give for a url: an error of the
\* DNS kind ("dial tcp" and "lookup" in its text), another transport error,
\* a status other than 200, a failed read, a document that parses as a feed,
\* or a page that does not and embeds the feed links `links'.
Pages ==
    [kind : {"dns", "neterr", "status", "readerr", "feed"}, links : {{}}]
        \cup [kind : {"html"}, links : SUBSET (Urls \cup {BadUrl})]

\* (result, nil) and (nil, err).  Feed is <<>> for nil, else the document
\* parsed, named by the url it was read from; at: the url an error's text names.
Found(feed, feedLink, sources) ==
    [res |-> <<[Feed |-> feed, FeedLink |-> feedLink, Sources |-> sources]>>,
     err |-> <<>>]
Failure(kind, at) == [res |-> <<>>, err |-> <<[kind |-> kind, at |-> at]>>]

\* The orders in which `range' over the map of scraper.FindFeeds can give
\* the links.
Orders(links) ==
    {o \in [1..Cardinality(links) -> links] :
        \A i, j \in DOMAIN o : i # j => o[i] # o[j]}

\* Faulty variant: no guard against a page that links to itself.
SelfReference_never(link, candidateUrl) == FALSE

\* sources[0].Url == candidateUrl
SelfReference(link, candidateUrl) == link = candidateUrl

\* One call of DiscoverFeed up to its return or its nested call, for the page
\* its fetch gave and the order the links came in.
DiscoverBody(candidateUrl, page, sources) ==
    CASE page.kind = "dns" ->
            [op |-> "return", val |-> Failure("dns", <<candidateUrl>>)]
      [] page.kind = "neterr" ->
            [op |-> "return", val |-> Failure("retrieve", <<candidateUrl>>)]
      [] page.kind = "status" ->
            [op |-> "return", val |-> Failure("status", <<>>)]
      [] page.kind = "readerr" ->
            [op |-> "return", val |-> Failure("read", <<>>)]
      [] page.kind = "feed" ->
            [op |-> "return", val |-> Found(<<candidateUrl>>, candidateUrl, <<>>)]
      [] page.kind = "html" ->
            IF Len(sources) = 0
            THEN [op |-> "return", val |-> Failure("nofeeds", <<>>)]
            ELSE IF Len(sources) = 1
            THEN IF SelfReference(sources[1], candidateUrl)
                 THEN [op |-> "return", val |-> Failure("recursion", <<>>)]
                 ELSE [op |-> "call", val |-> sources[1]]
            ELSE [op |-> "return", val |-> Found(<<>>, BadUrl, sources)]

\* Faulty variant: the outer call puts its own url into the feed it passes on.
Propagate_relink(r, candidateUrl) ==
    IF r.res # <<>> /\ r.res[1].Feed # <<>>
    THEN Found(r.res[1].Feed, candidateUrl, r.res[1].Sources)
    ELSE r

\* return DiscoverFeed(sources[0].Url): what the call at candidateUrl returns
\* for the value r of its nested call.
Propagate(r, candidateUrl) == r

\* No call in progress.  frames: the calls of DiscoverFeed on the stack, the
\* outermost first; page: <<>> before the fetch; ret: <<>> until it returns.
DiscIdle == disc = [pc |-> "idle", frames |-> <<>>]

NewFrame(url) == [url |-> url, page |-> <<>>, ret |-> <<>>]

\* DiscoverFeed(url) is called.
DiscoverFeed(url) ==
    /\ disc.pc \in {"idle", "done"}
    /\ disc' = [pc |-> "run", frames |-> <<NewFrame(url)>>]

\* The pages a fetch of url can give: what an earlier fetch of the same url
\* in this run gave, else any.
PagesAt(url) ==
    LET seen == {i \in 1..Len(disc.frames) :
                    disc.frames[i].url = url /\ disc.frames[i].page # <<>>}
    IN  IF seen = {} THEN Pages
        ELSE {disc.frames[CHOOSE i \in seen : TRUE].page[1]}

\* The innermost call runs: url.Parse, client.get, the parse, FindFeeds, the
\* switch; it returns, or calls DiscoverFeed on the one link found.
DiscoverRun ==
    /\ disc.pc = "run"
    /\ LET d == Len(disc.frames)
           url == disc.frames[d].url
       IN
       IF url = BadUrl
       THEN disc' = [disc EXCEPT
                        !.pc = IF d = 1 THEN "done" ELSE "unwind",
                        !.frames[d].ret = <<Failure("invalid", <<url>>)>>]
       ELSE \E page \in PagesAt(url) : \E sources \in Orders(page.links) :
              LET b == DiscoverBody(url, page, sources) IN
              IF b.op = "return"
              THEN disc' = [disc EXCEPT
                              !.pc = IF d = 1 THEN "done" ELSE "unwind",
                              !.frames[d].page = <<page>>,
                              !.frames[d].ret = <<b.val>>]
              ELSE /\ d < MaxDepth
                   /\ disc' = [disc EXCEPT
                                 !.frames = Append([@ EXCEPT ![d].page = <<page>>],
                                                   NewFrame(b.val))]

\* The innermost call that has not returned returns what its nested call did.
DiscoverReturn ==
    /\ disc.pc = "unwind"
    /\ LET d == CHOOSE i \in 1..Len(disc.frames) :
                    /\ disc.frames[i].ret = <<>>
                    /\ disc.frames[i + 1].ret # <<>>
       IN disc' = [disc EXCEPT
                     !.pc = IF d = 1 THEN "done" ELSE "unwind",
                     !.frames[d].ret =
                        <<Propagate(disc.frames[d + 1].ret[1], disc.frames[d].url)>>]

(* ---- crawler.go: listItemsWithContext and the HTTP cache state --------- *)

Feeds == 1..MaxFeeds

\* Values of the Last-Modified and Etag headers; "" is a header not sent.
LastModifieds == {"", "m1"}
Etags == {"", "e1"}

\* What the conditional GET of a feed comes back as: the kind of outcome
\* (see Responses) and the two headers of the response, if there is one.
FetchResponses ==
    {r \in [kind : Responses, lmod : LastModifieds, etag : Etags] :
        r.kind = "neterr" => (r.lmod = "" /\ r.etag = "")}

\* Faulty variant: the state stored whatever the headers are.
HasMarker_always(lmod, etag) == TRUE

\* if lmod != "" || etag != ""
HasMarker(lmod, etag) == lmod # "" \/ etag # ""

\* The call of db.SetHTTPState listItemsWithContext makes for a response:
\* <<>> for none, else <<the state stored>>.  Line 279 is reached only past
\* the status switch and a successful parse.
HTTPStateCall(resp) ==
    IF /\ ~listItems(resp.kind).err
       /\ listItems(resp.kind).items # "nil"
       /\ HasMarker(resp.lmod, resp.etag)
    THEN <<[LastModified |-> resp.lmod, Etag |-> resp.etag]>>
    ELSE <<>>

\* Storage before any fetch: no feed has an HTTP state, no feed has an error.
\* it: the worker iteration (or reset) that produced the state.
FetchInit ==
    fetch = [http |-> [f \in Feeds |-> <<>>], errors |-> {},
             it |-> [op |-> "none"]]

\* One iteration of a worker's loop for feed f, whose GET comes back as resp:
\* listItems (GetHTTPState, the GET, SetHTTPState), SetFeedError on an error,
\* the send to dstqueue.
WorkerIteration(f, resp) ==
    LET r == listItems(resp.kind)
        set == HTTPStateCall(resp)
    IN  fetch' = [http |-> IF set # <<>>
                           THEN [fetch.http EXCEPT ![f] = set]
                           ELSE fetch.http,
                  errors |-> IF r.err THEN fetch.errors \cup {f} ELSE fetch.errors,
                  it |-> [op |-> "iter", feed |-> f, resp |-> resp,
                          items |-> r.items, err |-> r.err,
                          set |-> set # <<>>, sent |-> WorkerEmits(r)]]

\* ResetFeedErrors at the start of a refresher.
FetchReset ==
    fetch' = [fetch EXCEPT !.errors = {}, !.it = [op |-> "reset"]]

(* ---- crawler.go: findFaviconWithContext -------------------------------- *)

\* siteUrl: empty, a url, or a string that is no url; feedUrl likewise.
SiteUrls == {"", "site", "%site"}
FeedUrls == {"feed", "%feed"}

\* The closure favicon: scheme://host/favicon.ico, "" when url.Parse fails.
favicon(link) ==
    CASE link = "site" -> "site.ico"
      [] link = "feed" -> "feed.ico"
      [] OTHER -> ""

\* scraper.FindIcons: the icons a site page refers to, in the page's order.
IconNames == <<"icon1", "icon2", "icon3">>
FindIcons(k) == SubSeq(IconNames, 1, k)

\* What http.DetectContentType says of a body.
ContentTypes == {"image/x-icon", "image/png", "image/jpeg", "image/gif", "text/html"}

imageTypes == {"image/x-icon", "image/png", "image/jpeg", "image/gif"}

\* Faulty variant: any content taken for an icon.
Accepted_any(ctype) == TRUE

\* imageTypes[ctype]
Accepted(ctype) == ctype \in imageTypes

\* client.getWithContext under a token: with the token expired the call
\* returns the token's error without a request; else the request is sent.
getWithContext(expired) == IF expired THEN "cancelled" ELSE "sent"

\* No call in progress.  expired: the deadline of ctx has passed.  urls: the
\* candidates; i: the candidate the loop is at.  lastErr: <<>> or <<reason, url>>.
\* History: sitePage is "none", "failed" or "read"; tried: the requests sent
\* for candidates, each with whether ctx had expired when it was sent and with
\* what came of it; cut: an operation of the call was ended by the expiry, or
\* a test of ctx.Err() found it expired.  ret: <<>> or <<[icon, err]>>, icon
\* <<>> for emptyIcon, else <<the url whose body it is>>.
IconIdle ==
    icon = [pc |-> "idle", siteUrl |-> "", feedUrl |-> "feed", expired |-> FALSE,
            urls |-> <<>>, i |-> 0, lastErr |-> <<>>, sitePage |-> "none",
            tried |-> <<>>, cut |-> FALSE, ret |-> <<>>]

\* Worker.FindFeedFavicon: a fresh token, then findFaviconWithContext.
FindFeedFavicon(siteUrl, feedUrl) ==
    /\ icon.pc \in {"idle", "done"}
    /\ icon' = [pc |-> "begin", siteUrl |-> siteUrl, feedUrl |-> feedUrl,
                expired |-> FALSE, urls |-> <<>>, i |-> 0, lastErr |-> <<>>,
                sitePage |-> "none", tried |-> <<>>, cut |-> FALSE, ret |-> <<>>]

\* The deadline of the token passes.
Expire ==
    /\ icon.pc \notin {"idle", "done"}
    /\ ~icon.expired
    /\ icon' = [icon EXCEPT !.expired = TRUE]

Returned(ic, bytes, err) ==
    [ic EXCEPT !.pc = "done", !.ret = <<[icon |-> bytes, err |-> err]>>]

\* return &emptyIcon, ctx.Err()
Cancelled(ic) == Returned([ic EXCEPT !.cut = TRUE], <<>>, <<"ctx">>)

\* Lines 143-150: the feed's favicon.ico, the return when there is no
\* candidate, else on to the loop.
AfterSite(ic) ==
    LET c == favicon(ic.feedUrl)
        ic1 == IF c # ""
               THEN [ic EXCEPT !.urls = Append(@, c)]
               ELSE [ic EXCEPT !.lastErr = <<"invalid", ic.feedUrl>>]
    IN  IF Len(ic1.urls) = 0 /\ ic1.lastErr # <<>>
        THEN Returned(ic1, <<>>, <<"unable">> \o ic1.lastErr)
        ELSE [ic1 EXCEPT !.pc = "loop", !.i = 1]

\* Lines 120-121: the GET of the site page is called.
SiteFetch ==
    /\ icon.pc = "begin"
    /\ icon' =
        IF icon.siteUrl = "" THEN AfterSite(icon)
        ELSE IF getWithContext(icon.expired) = "cancelled" THEN Cancelled(icon)
        ELSE IF favicon(icon.siteUrl) = ""
        THEN AfterSite([icon EXCEPT !.lastErr = <<"site", icon.siteUrl>>,
                                    !.sitePage = "failed"])
        ELSE [icon EXCEPT !.pc = "sitewait"]

\* Lines 122-130: the GET of the site page returns; ok is FALSE for an error.
SiteResponse(ok) ==
    /\ icon.pc = "sitewait"
    /\ icon' =
        IF icon.expired THEN Cancelled(icon)
        ELSE IF ~ok
        THEN AfterSite([icon EXCEPT !.lastErr = <<"site", icon.siteUrl>>,
                                    !.sitePage = "failed"])
        ELSE [icon EXCEPT !.pc = "siteread"]

\* Lines 131-139: io.ReadAll of the site page; k icons are found in it.  With
\* the token expired the read of the body ends in the token's error.
SiteRead(ok, k) ==
    /\ icon.pc = "siteread"
    /\ icon' =
        IF icon.expired \/ ~ok
        THEN AfterSite([icon EXCEPT !.lastErr = <<"siteread", icon.siteUrl>>,
                                    !.sitePage = "failed",
                                    !.cut = @ \/ icon.expired])
        ELSE AfterSite([icon EXCEPT
                            !.urls = FindIcons(k) \o <<favicon(icon.siteUrl)>>,
                            !.sitePage = "read"])

\* The candidate failed for `reason': lastErr, continue.
NextCandidate(ic, reason) ==
    [ic EXCEPT !.pc = "loop", !.i = @ + 1,
               !.lastErr = <<reason, ic.urls[ic.i]>>,
               !.tried[Len(ic.tried)].out = reason]

\* Lines 152-158 and 188-191: the end of the loop, or the test of ctx.Err()
\* and the GET of the next candidate.
IconFetch ==
    /\ icon.pc = "loop"
    /\ icon' =
        IF icon.i > Len(icon.urls)
        THEN IF icon.lastErr # <<>>
             THEN Returned(icon, <<>>, <<"novalid">> \o icon.lastErr)
             ELSE Returned(icon, <<>>, <<>>)
        ELSE IF icon.expired THEN Cancelled(icon)
        ELSE [icon EXCEPT !.pc = "iconwait",
                          !.tried = Append(@, [url |-> icon.urls[icon.i],
                                               late |-> icon.expired,
                                               out |-> "sent"])]

\* Lines 159-172: the GET returns: an error, a status other than 200, or 200.
IconResponse(out) ==
    /\ icon.pc = "iconwait"
    /\ icon' =
        IF icon.expired THEN Cancelled(icon)
        ELSE IF out = "200" THEN [icon EXCEPT !.pc = "iconread"]
        ELSE NextCandidate(icon, out)

\* Lines 174-185: io.ReadAll and DetectContentType; ctype is "" for a failed
\* read.  With the token expired the read of the body ends in the token's error.
IconRead(ctype) ==
    /\ icon.pc = "iconread"
    /\ icon' =
        IF icon.expired
        THEN NextCandidate([icon EXCEPT !.cut = TRUE], "read")
        ELSE IF ctype = "" THEN NextCandidate(icon, "read")
        ELSE IF Accepted(ctype)
        THEN Returned([icon EXCEPT !.tried[Len(icon.tried)].out = ctype],
                      <<icon.urls[icon.i]>>, <<>>)
        ELSE NextCandidate(icon, ctype)

(* ---- the specifications ----------------------------------------------- *)

Init == WorkerInit /\ TimerIdle /\ ClientIdle /\ DiscIdle /\ IconIdle /\ FetchInit

Next ==
    \/ \E n \in FeedCounts(MaxWork) :
            RefreshFeeds(n, 0) /\ UNCHANGED <<timer, call, ovars>>
    \/ StopRefresh /\ UNCHANGED <<timer, call, ovars>>
    \/ FeedsPendingLoad /\ UNCHANGED <<timer, call, ovars>>
    \/ FeedsPendingClamp /\ UNCHANGED <<timer, call, ovars>>
    \/ CycleStep /\ UNCHANGED <<timer, call, ovars>>

Spec == Init /\ [][Next]_vars

Listeners == 1..Len(timer.listeners)

\* What a step of the timer alone leaves as it is.
WorkerUnchanged ==
    UNCHANGED <<pending, cycles, feedErrors, fpPc, numWorkers, call, ovars>>

TimerNext ==
    \/ \E m \in Minutes :
        /\ m # 0 => Len(timer.listeners) < MaxTimers
        /\ SetRefreshRateBegin(m)
        /\ WorkerUnchanged
    \/ StopHandshake
        /\ WorkerUnchanged
    \/ SetRefreshRateEnd
        /\ WorkerUnchanged
    \/ \E k \in Listeners :
        Tick(k) /\ WorkerUnchanged
    \/ \E k \in Listeners :
        ListenerFire(k)
            /\ WorkerUnchanged
    \/ \E k \in Listeners, n \in FeedCounts(MaxTimerWork) :
        ListenerRefresh(k, n) /\ UNCHANGED <<call, ovars>>
    \/ \E k \in Listeners :
        ListenerExit(k)
            /\ WorkerUnchanged
    \/ CycleStep /\ UNCHANGED <<timer, call, ovars>>

\* The goroutines run: the listener, the caller of SetRefreshRate between
\* its steps, and the refreshers.  Ticks and new calls are not forced.
TimerFairness ==
    /\ WF_vars(StopHandshake /\ WorkerUnchanged)
    /\ WF_vars(SetRefreshRateEnd /\ WorkerUnchanged)
    /\ WF_vars(\E k \in Listeners, n \in FeedCounts(MaxTimerWork) :
                    ListenerRefresh(k, n) /\ UNCHANGED <<call, ovars>>)
    /\ WF_vars(\E k \in Listeners : ListenerExit(k) /\ WorkerUnchanged)

TimerSpec == Init /\ [][TimerNext]_vars /\ TimerFairness

ClientNext ==
    \/ \E urlOk \in BOOLEAN : GetConditional(urlOk) /\ UNCHANGED <<wvars, timer, ovars>>
    \/ \E out \in {<<>>} \cup {<<e>> : e \in Errors} :
            Attempt(out) /\ UNCHANGED <<wvars, timer, ovars>>
    \/ Exhausted /\ UNCHANGED <<wvars, timer, ovars>>

ClientSpec == Init /\ [][ClientNext]_vars

DiscoverNext ==
    \/ \E url \in Urls \cup {BadUrl} :
            DiscoverFeed(url) /\ UNCHANGED <<wvars, timer, call, icon, fetch>>
    \/ DiscoverRun /\ UNCHANGED <<wvars, timer, call, icon, fetch>>
    \/ DiscoverReturn /\ UNCHANGED <<wvars, timer, call, icon, fetch>>

DiscoverSpec == Init /\ [][DiscoverNext]_vars

FetchNext ==
    \/ \E f \in Feeds, resp \in FetchResponses :
            WorkerIteration(f, resp) /\ UNCHANGED <<wvars, timer, call, disc, icon>>
    \/ FetchReset /\ UNCHANGED <<wvars, timer, call, disc, icon>>

FetchSpec == Init /\ [][FetchNext]_vars

IconNext ==
    \/ \E siteUrl \in SiteUrls, feedUrl \in FeedUrls :
            FindFeedFavicon(siteUrl, feedUrl)
                /\ UNCHANGED <<wvars, timer, call, disc, fetch>>
    \/ Expire /\ UNCHANGED <<wvars, timer, call, disc, fetch>>
    \/ SiteFetch /\ UNCHANGED <<wvars, timer, call, disc, fetch>>
    \/ \E ok \in BOOLEAN :
            SiteResponse(ok) /\ UNCHANGED <<wvars, timer, call, disc, fetch>>
    \/ \E ok \in BOOLEAN, k \in 0..MaxIcons :
            SiteRead(ok, k) /\ UNCHANGED <<wvars, timer, call, disc, fetch>>
    \/ IconFetch /\ UNCHANGED <<wvars, timer, call, disc, fetch>>
    \/ \E out \in {"access", "status", "200"} :
            IconResponse(out) /\ UNCHANGED <<wvars, timer, call, disc, fetch>>
    \/ \E ctype \in ContentTypes \cup {""} :
            IconRead(ctype) /\ UNCHANGED <<wvars, timer, call, disc, fetch>>

IconSpec == Init /\ [][IconNext]_vars

\* The answers to a GET in the runs of PipelineSpec: one that makes the
\* worker record an error and send an empty result, one that brings items.
PipeResponses == {"neterr", "parsed1"}

\* The steps of refresher c, its workers and its aggregator, the queueing
\* loop taken send by send.
PipeStep(c) ==
    /\ c \in 1..Len(cycles)
    /\ \/ RefresherBegin(c)
       \/ RefresherQueue(c)
       \/ WorkerPull(c)
       \/ WorkerFetchOf(c, PipeResponses)
       \/ WorkerSend(c)
       \/ WorkersDone(c)
       \/ AggRecv(c)
       \/ AggDec(c)
       \/ RefresherFinish(c)
    /\ UNCHANGED <<timer, call, ovars>>

\* As Init, with NUM_WORKERS set to any value from 1 to MaxPool.
PipeInit ==
    /\ pending = 0
    /\ cycles = <<>>
    /\ feedErrors = {}
    /\ fpPc = <<>>
    /\ numWorkers \in 1..MaxPool
    /\ last = Step("NewWorker")
    /\ TimerIdle /\ ClientIdle /\ DiscIdle /\ IconIdle /\ FetchInit

PipeNext ==
    \/ \E n \in FeedCounts(MaxPipeWork) :
            RefreshFeeds(n, 0) /\ UNCHANGED <<timer, call, ovars>>
    \/ StopRefresh /\ UNCHANGED <<timer, call, ovars>>
    \/ \E c \in 1..Len(cycles) : PipeStep(c)

\* Every goroutine of a refresher that can take a step eventually takes
\* one; each fetch returns.  New calls of RefreshFeeds and StopRefresh are
\* not forced.
PipeFairness == \A c \in 1..MaxPipeWork : WF_vars(PipeStep(c))

PipelineSpec == PipeInit /\ [][PipeNext]_vars /\ PipeFairness

(* ======================================================================= *)
(* Properties of the refresh scheduler and pipeline, checked under Spec    *)
(* ======================================================================= *)

Cycles == 1..Len(cycles)
FeedsOf(c) == 1..Len(cycles[c].feeds)

\* The cycle's feeds whose listItems returned an error.
Failed(cy) == {f \in DOMAIN cy.result : cy.result[f] # <<>> /\ cy.result[f][1].err}

\* The cycle's feeds whose listItems returned a non-empty item list.
WithItems(cy) ==
    {f \in DOMAIN cy.result : cy.result[f] # <<>> /\ cy.result[f][1].items = "some"}

\* Every fetch of the cycle succeeded with zero new items (304 included).
AllZero(cy) ==
    \A f \in DOMAIN cy.result :
        /\ cy.result[f] # <<>>
        /\ ~cy.result[f][1].err
        /\ cy.result[f][1].items # "some"

\* The step in which refresher c leaves its loop, stores 0 and finishes.
Ends(c) == c \in Cycles /\ cycles[c].pc = "run" /\ cycles'[c].pc = "done"

\* C1: at most one refresh cycle is in flight at any time: no refresher is
\* spawned while an earlier refresher has not returned.
C1_AtMostOneCycle == Cardinality(InFlight) <= 1

\* C2: FeedsPending never returns a negative value.
C2_FeedsPendingNonNegative == last.op = "FeedsPending" => last.ret >= 0

\* C2 witness: FeedsPending loaded a negative counter and returned 0.
C2_Witness == last.op = "FeedsPending" /\ last.arg < 0 /\ last.ret = 0

\* C3: RefreshFeeds called while the pending counter is positive changes
\* neither the counter, nor any cycle (none is added, none is altered), nor
\* the feed errors.
C3_RefreshWhileRunningNoOp ==
    [][(last'.op = "RefreshFeeds" /\ pending > 0)
        => UNCHANGED <<pending, cycles, feedErrors, fpPc>>]_vars

\* C3 witness: RefreshFeeds has just returned "already in progress" with a
\* cycle in flight.
C3_Witness ==
    /\ last.op = "RefreshFeeds" /\ last.ret = 0
    /\ pending > 0
    /\ \E c \in Cycles : cycles[c].pc = "run" /\ cycles[c].received > 0

\* C4: when a cycle in which every fetch succeeded with zero new items ends,
\* the pending counter is 0 and the cycle never called CreateItems.
C4_ZeroItemCycle ==
    [][\A c \in Cycles :
         (Ends(c) /\ AllZero(cycles[c]))
            => (pending' = 0 /\ cycles'[c].created = 0)]_vars

\* C4 witness: a finished cycle over at least two feeds, one answered with
\* not-modified and one parsed to zero items.
C4_Witness ==
    \E c \in Cycles :
        /\ cycles[c].pc = "done" /\ AllZero(cycles[c])
        /\ \E f, g \in FeedsOf(c) :
            /\ cycles[c].result[f][1].items = "nil"
            /\ cycles[c].result[g][1].items = "empty"

\* C5: when a cycle ends, the feed error map read at its end holds exactly
\* the ids of the cycle's failing feeds.
C5_ErrorsAreTheFailingFeeds ==
    \A c \in Cycles :
        cycles[c].pc = "done" => cycles[c].errsAtEnd = Failed(cycles[c])

\* C6: in every cycle each feed is taken by a worker at most once and no
\* more results are emitted than feeds; when the cycle ends every feed was
\* fetched exactly once and the aggregator received exactly one result per
\* feed, whatever the outcomes.
C6_OneResultPerFeed ==
    \A c \in Cycles :
        /\ \A f \in FeedsOf(c) : cycles[c].fetches[f] <= 1
        /\ cycles[c].received <= cycles[c].emitted
        /\ cycles[c].emitted <= Len(cycles[c].feeds)
        /\ cycles[c].pc = "done" =>
            /\ \A f \in FeedsOf(c) :
                cycles[c].fetches[f] = 1 /\ cycles[c].result[f] # <<>>
            /\ cycles[c].emitted = Len(cycles[c].feeds)
            /\ cycles[c].received = Len(cycles[c].feeds)

\* C6 witness: a finished cycle over three feeds: one failed, one brought
\* items, one was not modified; three results were received.
C6_Witness ==
    \E c \in Cycles :
        /\ cycles[c].pc = "done" /\ cycles[c].received = 3
        /\ Cardinality(Failed(cycles[c])) = 1
        /\ Cardinality(WithItems(cycles[c])) = 1

\* A finished cycle fetched all its feeds and persisted each non-empty result.
Completed(cy) ==
    /\ \A f \in DOMAIN cy.fetches : cy.fetches[f] = 1 /\ cy.result[f] # <<>>
    /\ cy.created = Cardinality(WithItems(cy))

\* C7: StopRefresh sets a positive pending counter to 0 and changes nothing
\* else (with the counter at 0 or below it changes nothing at all); every
\* cycle, stopped or not, has fetched all its feeds and persisted each of its
\* non-empty results when it ends.
C7_StopOnlyResetsCounter ==
    [][/\ last'.op = "StopRefresh" =>
            /\ pending' = (IF pending > 0 THEN 0 ELSE pending)
            /\ UNCHANGED <<cycles, feedErrors, fpPc, numWorkers>>
       /\ \A c \in 1..Len(cycles') :
            cycles'[c].pc = "done" =>
                /\ Len(cycles'[c].feeds) = Len(cycles'[c].result)
                /\ Completed(cycles'[c])]_vars

\* C7 witness: StopRefresh has just zeroed the counter of a running cycle
\* that has one feed being fetched and another not yet taken.
C7_Witness ==
    /\ last.op = "StopRefresh" /\ last.ret = 1
    /\ pending = 0
    /\ \E c \in Cycles :
        /\ cycles[c].pc = "run"
        /\ cycles[c].fetching # {}
        /\ cycles[c].srcqueue # <<>>

(* ======================================================================= *)
(* Properties of the refresh timer, checked under TimerSpec                *)
(* ======================================================================= *)

\* Listeners that have not been handed their stop signal: they can still
\* take a tick and call RefreshFeeds.
Listening == {k \in Listeners : timer.listeners[k] \in {"select", "firing"}}

\* SetRefreshRate(0), or no call yet, was the last call to return.
TimerOff == timer.set.pc = "idle" /\ timer.rate = 0

C8_OneListener ==
    /\ Cardinality(Listening) <= 1
    /\ timer.running \subseteq {timer.refresh}
    /\ timer.set.pc = "idle" => Listening = {timer.stopper} \ {0}
    /\ TimerOff => (Listening = {} /\ timer.running = {})

\* C8: at most one listener that has not been handed its stop signal exists
\* at any time, and at most one ticker runs; when no call of SetRefreshRate
\* is in progress the only such listener is the one installed by the last
\* call, and after SetRefreshRate(0) there is none, so that no timer-fired
\* RefreshFeeds can begin; and every call of SetRefreshRate returns.
C8_SetRefreshRate ==
    /\ []C8_OneListener
    /\ (timer.set.pc # "idle") ~> (timer.set.pc = "idle")

\* C8 witness: two listeners were installed one after the other, each fired
\* or not, both were stopped and have exited, and the timer is off.
C8_Witness ==
    /\ Len(timer.listeners) = 2
    /\ \A k \in Listeners : timer.listeners[k] = "exited"
    /\ TimerOff
    /\ Len(cycles) >= 1

(* ======================================================================= *)
(* Properties of Client.getConditional, checked under ClientSpec           *)
(* ======================================================================= *)

\* A timeout / temporary network error, or a text with the DNS / connection
\* patterns, as the retry policy is written down.
Transient(e) ==
    \/ e.net
    \/ "dial tcp" \in e.has /\
         e.has \cap {"lookup", "server misbehaving", "no such host", "i/o timeout"} # {}

Last(seq) == seq[Len(seq)]

\* C9: a call makes at most 3 attempts; only the last attempt can succeed, and
\* a call whose last attempt succeeds returns the response; every attempt
\* but the last failed with a transient error; a failure that is not
\* transient is the last attempt, is returned, and is followed by no sleep
\* (a first attempt failing so gives one attempt and no sleep at all); a call
\* whose 3 attempts all fail returns the error of the third.
C9_RetryPolicy ==
    /\ Len(call.attempts) <= 3
    /\ \A j \in 1..(Len(call.attempts) - 1) :
        call.attempts[j] # <<>> /\ Transient(call.attempts[j][1])
    /\ (call.pc = "done" /\ call.attempts # <<>>) =>
        /\ call.ret = Last(call.attempts)
        /\ Last(call.attempts) = <<>> =>
            Len(call.sleeps) = Len(call.attempts) - 1
        /\ (Last(call.attempts) # <<>> /\ ~Transient(Last(call.attempts)[1])) =>
            Len(call.sleeps) = Len(call.attempts) - 1
        /\ (Last(call.attempts) # <<>> /\ Transient(Last(call.attempts)[1])) =>
            Len(call.attempts) = 3

\* C9 witness: three attempts failed with three different transient errors
\* and the call returned the third.
C9_Witness ==
    /\ call.pc = "done"
    /\ Len(call.attempts) = 3
    /\ call.attempts[1] # call.attempts[3]
    /\ call.attempts[2] # call.attempts[3]
    /\ call.ret = call.attempts[3] /\ call.ret # <<>>

\* C10: the sleep after the first failed attempt is 2 and the sleep after
\* the second is 4; a call with two transient failures and then a response
\* returns the response after sleeping 2 + 4 = 6 in total.
C10_Backoff ==
    /\ Len(call.sleeps) >= 1 => call.sleeps[1] = 2
    /\ Len(call.sleeps) >= 2 => call.sleeps[2] = 4
    /\ (call.pc = "done" /\ Len(call.attempts) = 3 /\ call.attempts[3] = <<>>) =>
        /\ call.ret = <<>>
        /\ Len(call.sleeps) = 2
        /\ call.sleeps[1] + call.sleeps[2] >= 6

\* C10 witness: two transient failures, then a response, returned.
C10_Witness ==
    /\ call.pc = "done"
    /\ Len(call.attempts) = 3
    /\ call.attempts[1] # <<>> /\ call.attempts[2] # <<>>
    /\ call.attempts[3] = <<>>
    /\ call.ret = <<>>

(* ======================================================================= *)
(* Properties of DiscoverFeed, checked under DiscoverSpec                  *)
(* ======================================================================= *)

Frames == 1..Len(disc.frames)

\* The calls that have fetched their page.
Fetched == {i \in Frames : disc.frames[i].page # <<>>}

\* Call i fetched a page that is no feed and embeds exactly the links in `links'.
Embeds(i, links) ==
    /\ i \in Fetched
    /\ disc.frames[i].page[1].kind = "html"
    /\ disc.frames[i].page[1].links = links

\* C11: of a call of DiscoverFeed whose page does not parse as a feed: with
\* no feed link in the page it returns the no-feeds-found error; with exactly
\* one link L equal to its own url it returns the recursion error and no
\* call, hence no fetch, follows it; with exactly one link L different from
\* its url the next call is DiscoverFeed(L) and what it returns is exactly
\* what that call returned.
C11_SingleCandidate ==
    \A i \in Frames :
        LET f == disc.frames[i] IN
        /\ Embeds(i, {}) =>
            /\ i = Len(disc.frames)
            /\ f.ret = <<Failure("nofeeds", <<>>)>>
        /\ \A L \in Urls \cup {BadUrl} :
            Embeds(i, {L}) =>
                IF L = f.url
                THEN /\ i = Len(disc.frames)
                     /\ f.ret = <<Failure("recursion", <<>>)>>
                ELSE /\ i < Len(disc.frames)
                     /\ disc.frames[i + 1].url = L
                     /\ f.ret # <<>> => f.ret = disc.frames[i + 1].ret

\* C11 witness: a call whose page has one link to another page, which has one
\* link to itself: the recursion error came back through both calls.
C11_Witness ==
    /\ disc.pc = "done"
    /\ Len(disc.frames) = 2
    /\ Embeds(1, {disc.frames[2].url})
    /\ Embeds(2, {disc.frames[2].url})
    /\ disc.frames[1].ret = <<Failure("recursion", <<>>)>>

\* The set of the elements of a sequence.
Range(seq) == {seq[i] : i \in DOMAIN seq}

\* C12: every result DiscoverFeed returns without an error has exactly one
\* of two shapes: a feed, no candidate list, and FeedLink the url of the call
\* that fetched and parsed the feed document (the input url when the input
\* serves a feed); or no feed and a list of at least two candidates, one per
\* link of the page that embeds them (three links give three entries).
C12_ResultShape ==
    \A i \in Frames :
        (disc.frames[i].ret # <<>> /\ disc.frames[i].ret[1].res # <<>>) =>
            LET r == disc.frames[i].ret[1].res[1]
                n == Len(disc.frames)
            IN
            \/ /\ r.Feed # <<>>
               /\ r.Sources = <<>>
               /\ disc.frames[n].page[1].kind = "feed"
               /\ r.FeedLink = disc.frames[n].url
               /\ r.Feed = <<disc.frames[n].url>>
            \/ /\ r.Feed = <<>>
               /\ Len(r.Sources) >= 2
               /\ Embeds(n, Range(r.Sources))
               /\ Len(r.Sources) = Cardinality(disc.frames[n].page[1].links)

\* C12 witness: DiscoverFeed on a page with one link to a feed has returned
\* that feed with the feed's url, not the page's, as FeedLink.
C12_Witness ==
    /\ disc.pc = "done"
    /\ Len(disc.frames) = 2
    /\ disc.frames[1].ret[1].res # <<>>
    /\ disc.frames[1].ret[1].res[1].FeedLink = disc.frames[2].url
    /\ disc.frames[1].url # disc.frames[2].url

\* C21: DiscoverFeed terminates on every finite set of pages.  Every url
\* serves the same page throughout a run, so a call for a url nested in a
\* call for the same url repeats it without end, and a run over finitely
\* many pages returns exactly when that never happens: the calls on the
\* stack are for pairwise different urls.
C21_DiscoverTerminates ==
    \A i, j \in Frames :
        i < j => disc.frames[i].url # disc.frames[j].url

(* ======================================================================= *)
(* Properties of listItems and the HTTP cache state, checked under         *)
(* FetchSpec                                                                *)
(* ======================================================================= *)

\* The step is a worker iteration.
Iterates == fetch'.it.op = "iter"

\* C13: a worker iteration whose conditional GET is answered 304: listItems
\* returns no items and no error, SetHTTPState is not called and the HTTP
\* state of every feed is as before, no feed error is recorded, and the
\* worker sends exactly one result, an empty one.
C13_NotModified ==
    [][(Iterates /\ fetch'.it.resp.kind = "notmod") =>
            /\ fetch'.it.items = "nil" /\ ~fetch'.it.err
            /\ ~fetch'.it.set
            /\ fetch'.http = fetch.http
            /\ fetch'.errors = fetch.errors
            /\ fetch'.it.sent = <<"empty">>]_vars

\* C13 witness: a 304 for a feed that has validators stored and no error
\* recorded, while the other feed has an error; one empty result was sent.
C13_Witness ==
    /\ fetch.it.op = "iter" /\ fetch.it.resp.kind = "notmod"
    /\ fetch.http[fetch.it.feed] # <<>>
    /\ fetch.it.feed \notin fetch.errors
    /\ fetch.errors # {}
    /\ fetch.it.sent = <<"empty">>

\* C14: after a worker iteration for feed f the stored HTTP state of f is the
\* (Last-Modified, Etag) pair of the response when the fetch succeeded, the
\* body parsed and at least one of the two is present, and is the prior
\* state in every other outcome; the state of every other feed is unchanged.
C14_CacheState ==
    [][Iterates =>
        LET f == fetch'.it.feed
            resp == fetch'.it.resp
        IN  /\ fetch'.http[f] =
                IF /\ resp.kind \in {"parsed0", "parsed1"}
                   /\ (resp.lmod # "" \/ resp.etag # "")
                THEN <<[LastModified |-> resp.lmod, Etag |-> resp.etag]>>
                ELSE fetch.http[f]
            /\ \A g \in Feeds \ {f} : fetch'.http[g] = fetch.http[g]]_vars

\* C14 witness: a parsed response with an Etag and no Last-Modified has
\* replaced the state of its feed, and the other feed has a state of its own.
C14_Witness ==
    /\ fetch.it.op = "iter" /\ fetch.it.resp.kind = "parsed1"
    /\ fetch.it.resp.lmod = "" /\ fetch.it.resp.etag = "e1"
    /\ fetch.http[fetch.it.feed] = <<[LastModified |-> "", Etag |-> "e1"]>>
    /\ \E g \in Feeds \ {fetch.it.feed} :
        fetch.http[g] # <<>> /\ fetch.http[g][1].LastModified = "m1"

(* ======================================================================= *)
(* Properties of findFaviconWithContext, checked under IconSpec            *)
(* ======================================================================= *)

\* What a candidate that gave no icon ended as: the GET failed, the status
\* was not 200, the read failed, or the content is of no accepted kind.
Rejections == {"access", "status", "read", "text/html"}

\* The call has returned something other than the token's error.
Finished == icon.pc = "done" /\ icon.ret[1].err # <<"ctx">>

\* C15: the requests for candidates go through the candidate list in its
\* order, one per candidate, each sent only after every earlier candidate was
\* rejected; a call that returns an icon returns the body of the candidate
\* requested last, which came with status 200 and content of an accepted
\* kind, and no error; a call that returns no icon after trying candidates
\* has requested every candidate, each was rejected, and the error it
\* returns carries the reason of the last candidate.
C15_FirstValidIcon ==
    /\ Len(icon.tried) <= Len(icon.urls)
    /\ \A j \in 1..Len(icon.tried) :
        /\ icon.tried[j].url = icon.urls[j]
        /\ j < Len(icon.tried) => icon.tried[j].out \in Rejections
    /\ (Finished /\ icon.urls # <<>>) =>
        LET n == Len(icon.tried)
            r == icon.ret[1]
        IN  /\ n >= 1
            /\ IF r.icon # <<>>
               THEN /\ icon.tried[n].out \in
                        {"image/x-icon", "image/png", "image/jpeg", "image/gif"}
                    /\ r.icon = <<icon.tried[n].url>>
                    /\ r.err = <<>>
               ELSE /\ n = Len(icon.urls)
                    /\ icon.tried[n].out \in Rejections
                    /\ r.err = <<"novalid", icon.tried[n].out, icon.tried[n].url>>

\* C15 witness: the icon of the page answered with another status, the site's
\* favicon.ico was HTML, the feed host's favicon.ico was returned.
C15_Witness ==
    /\ Finished
    /\ Len(icon.tried) = 3
    /\ icon.tried[1].out = "status"
    /\ icon.tried[2].out = "text/html"
    /\ icon.ret[1].icon = <<"feed.ico">>

\* C16: when the fetch or the read of the site page fails for a reason other
\* than the expiry of the token, the favicon.ico of the site host and then
\* the favicon.ico of the feed host are still requested, in that order (the
\* second unless the first gave the icon).
C16_SiteFailureKeepsCandidates ==
    (/\ Finished
     /\ icon.siteUrl = "site" /\ icon.feedUrl = "feed"
     /\ icon.sitePage = "failed" /\ ~icon.cut) =>
        /\ Len(icon.tried) >= 1
        /\ icon.tried[1].url = "site.ico"
        /\ icon.tried[1].out \in Rejections =>
            (Len(icon.tried) >= 2 /\ icon.tried[2].url = "feed.ico")

\* C17: no request for a candidate is sent with the token expired, and a call
\* in which the expiry ended an operation, or in which a test of the token
\* found it expired, returns no icon and the token's own error.
C17_ExpiryIsCancellation ==
    /\ \A j \in 1..Len(icon.tried) : ~icon.tried[j].late
    /\ (icon.pc = "done" /\ icon.cut) =>
        icon.ret[1] = [icon |-> <<>>, err |-> <<"ctx">>]

(* ======================================================================= *)
(* Properties of the pending counter, checked under Spec                   *)
(* ======================================================================= *)

\* C18: the stored pending counter is never below 0.
C18_StoredCounterNonNegative == pending >= 0

\* The results of a cycle the aggregator is done with, the decrement included.
Processed(cy) == cy.received - Len(cy.aggCur)

\* C19: the pending counter is the live count of the current cycle: a step
\* of an earlier cycle (a decrement for one of its results, the reset at its
\* end) never changes it; RefreshFeeds starting a cycle over N feeds sets it
\* to N; and while it equals N minus the results the aggregator of the
\* current cycle has processed, it still does after every step other than
\* StopRefresh and the end of that cycle.
C19_LiveCount ==
    [][/\ \A c \in Cycles :
            (c < Len(cycles) /\ Len(cycles') = Len(cycles) /\ cycles'[c] # cycles[c])
                => pending' = pending
       /\ Len(cycles') > Len(cycles) =>
            pending' = Len(cycles'[Len(cycles')].feeds)
       /\ (/\ cycles # <<>> /\ Len(cycles') = Len(cycles)
           /\ pending = Len(cycles[Len(cycles)].feeds) - Processed(cycles[Len(cycles)])
           /\ last'.op # "StopRefresh"
           /\ cycles'[Len(cycles)].pc # "done")
            => pending' = Len(cycles[Len(cycles)].feeds) - Processed(cycles'[Len(cycles)])
      ]_vars

(* ======================================================================= *)
(* Termination of a refresh cycle, checked under PipelineSpec              *)
(* ======================================================================= *)

\* What holds of the queues of every cycle in every state.
PipeSafe ==
    \A c \in Cycles :
        LET cy == cycles[c] IN
        \* the producer can always send the next feed
        /\ (cy.pc = "queue" /\ Queued(cy) < Len(cy.feeds)) =>
                Len(cy.srcqueue) < SrcCap(cy.feeds)
        \* dstqueue never holds more than its capacity
        /\ Len(cy.dstqueue) <= numWorkers
        \* dstqueue is closed only after every worker has sent its last result
        /\ cy.dstClosed =>
            /\ cy.srcqueue = <<>> /\ cy.fetching = {}
            /\ cy.holding["empty"] + cy.holding["some"] = 0
            /\ cy.emitted = Len(cy.feeds)
        \* at the end the queue is closed and drained, the index synced once
        /\ cy.pc = "done" =>
            /\ cy.dstClosed /\ cy.dstqueue = <<>>
            /\ cy.received = Len(cy.feeds)
            /\ cy.created = Cardinality(WithItems(cy))
            /\ cy.synced = 1
        /\ cy.pc # "done" => cy.synced = 0

\* C20: every cycle that was started ends, for 1 to MaxPool workers and any
\* number of feeds: the producer never waits for room in srcqueue, dstqueue
\* is closed once, after every worker has sent its last result, and is never
\* sent to afterwards; the aggregator then leaves its loop, SyncSearch is
\* called once, after the last CreateItems, and the step that ends the
\* cycle leaves the pending counter at 0.
C20_CycleTerminates ==
    /\ []PipeSafe
    /\ [][\A c \in Cycles :
            /\ cycles[c].dstClosed =>
                (cycles'[c].dstClosed /\ cycles'[c].emitted = cycles[c].emitted)
            /\ Ends(c) => pending' = 0]_vars
    /\ \A c \in 1..MaxPipeWork :
        (Len(cycles) >= c) ~> (Len(cycles) >= c /\ cycles[c].pc = "done")

\* C20 witness: a cycle over two feeds has ended with a single worker and a
\* results queue of capacity one; one fetch failed, one brought items.
C20_Witness ==
    /\ numWorkers = 1
    /\ \E c \in Cycles :
        /\ cycles[c].pc = "done"
        /\ Len(cycles[c].feeds) = 2
        /\ cycles[c].created = 1

====
